---- MODULE Spec2Model ----
(***************************************************************************)
(* Model of sat_bechmark.py: the three SAT procedures dp, dpll and cdcl,   *)
(* the pigeonhole generator with its DIMACS round trip, and the benchmark  *)
(* loop that runs the three procedures on one formula.                     *)
(*                                                                         *)
(* A clause is a sequence of non-zero integers (a Python list of ints), a  *)
(* formula a sequence of clauses.  A dict is a function whose DOMAIN is    *)
(* the set of its keys.                                                    *)
(***************************************************************************)
EXTENDS Integers, Sequences, FiniteSets, TLC

\* ------------------------------------------------------------ bounds
MaxVars == 2
MaxLen == 2
MaxClauses == 3
\* clauses per formula where several formulas are solved one after the other
MaxRepeatClauses == 1
\* largest n of the pigeonhole instances (n + 1 pigeons, n holes)
MaxHoles == 2

\* ------------------------------------------------------------ inputs
Abs(x) == IF x < 0 THEN -x ELSE x

Lits(n) == {l \in (-n)..n : l # 0}

SeqsUpTo(S, k) == UNION {[1..m -> S] : m \in 0..k}

\* every clause list over variables 1..n within the bounds
Formulas(n) == SeqsUpTo(SeqsUpTo(Lits(n), MaxLen), MaxClauses)

\* the shorter clause lists solved in sequence
ShortFormulas(n) == SeqsUpTo(SeqsUpTo(Lits(n), MaxLen), MaxRepeatClauses)

\* how a caller passes dpll its assignment
Modes == {"fresh", "default"}

\* ------------------------------------------------------------ dicts
EmptyDict == [k \in {} |-> TRUE]

Put(d, k, v) == [x \in (DOMAIN d) \cup {k} |-> IF x = k THEN v ELSE d[x]]

Del(d, k) == [x \in (DOMAIN d) \ {k} |-> d[x]]

Contains(seq, x) == \E i \in DOMAIN seq : seq[i] = x

\* ------------------------------------------------------------ reference
\* brute force: some total assignment to 1..n makes a literal of every clause true
LitTrue(l, t) == IF l > 0 THEN t[l] ELSE ~t[-l]

Satisfiable(clauses, n) ==
    \E t \in [1..n -> BOOLEAN] :
        \A i \in DOMAIN clauses : \E j \in DOMAIN clauses[i] : LitTrue(clauses[i][j], t)

\* ------------------------------------------------------------ dp
\* a variant of assign that leaves the falsified literal in the remaining clauses
assignKeepFalsified(clauses, symbol, value) ==
    SelectSeq(clauses, LAMBDA clause : ~Contains(clause, symbol * value))

\* a variant of assign that keeps the clauses the value satisfies
assignKeepSatisfied(clauses, symbol, value) ==
    [i \in DOMAIN clauses |-> SelectSeq(clauses[i], LAMBDA x : x # (-symbol) * value)]

\* dp.assign: drop the clauses holding symbol*value, strip -symbol*value from the rest
assign(clauses, symbol, value) ==
    LET kept == SelectSeq(clauses, LAMBDA clause : ~Contains(clause, symbol * value))
    IN  [i \in 1..Len(kept) |-> SelectSeq(kept[i], LAMBDA x : x # (-symbol) * value)]

\* dp: "True" / "False", or "IndexError" where symbols[0] is read from an empty list
RECURSIVE dp(_, _)
dp(clauses, symbols) ==
    IF clauses = <<>> THEN "True"
    ELSE IF \E i \in DOMAIN clauses : clauses[i] = <<>> THEN "False"
    ELSE IF symbols = <<>> THEN "IndexError"
    ELSE LET symbol == Head(symbols)
             rest == Tail(symbols)
             first == dp(assign(clauses, symbol, 1), rest)
         IN  IF first # "False" THEN first
             ELSE dp(assign(clauses, symbol, -1), rest)

\* a variant of assignLeaves where assign filters the list it was given in place
assignInPlace(clauses, symbol, value) == assign(clauses, symbol, value)

\* lines 38-45: the list assign was given, after it returned: assign only reads clauses
\* and each clause, and appends to the new lists new_clauses and new_clause
assignLeaves(clauses, symbol, value) == clauses

\* lines 29-47: the caller's list after dp returned; the recursive calls are handed
\* the new lists assign built
dpLeaves(clauses, symbols) ==
    IF clauses = <<>> \/ (\E i \in DOMAIN clauses : clauses[i] = <<>>) \/ symbols = <<>>
    THEN clauses
    ELSE LET symbol == Head(symbols)
             rest == Tail(symbols)
             after1 == assignLeaves(clauses, symbol, 1)
         IN  IF dp(assign(clauses, symbol, 1), rest) # "False"
             THEN after1
             ELSE assignLeaves(after1, symbol, -1)

\* the deeper of two nestings
Max(a, b) == IF a >= b THEN a ELSE b

\* lines 29-47: how many dp calls are nested below this one at most
RECURSIVE dpDepth(_, _)
dpDepth(clauses, symbols) ==
    IF clauses = <<>> \/ (\E i \in DOMAIN clauses : clauses[i] = <<>>) \/ symbols = <<>>
    THEN 0
    ELSE LET symbol == Head(symbols)
             rest == Tail(symbols)
             left == assign(clauses, symbol, 1)
         IN  IF dp(left, rest) # "False"
             THEN 1 + dpDepth(left, rest)
             ELSE 1 + Max(dpDepth(left, rest), dpDepth(assign(clauses, symbol, -1), rest))

\* ------------------------------------------------------------ dpll helpers
\* line 52: any(lit in assignment and assignment[lit] for lit in clause)
ClauseSatisfied(clause, asg) ==
    \E j \in DOMAIN clause : clause[j] \in DOMAIN asg /\ asg[clause[j]]

\* a variant of ClauseFalsified that takes one falsified literal for a falsified clause
ClauseFalsifiedAny(clause, asg) ==
    \E j \in DOMAIN clause : clause[j] \in DOMAIN asg /\ ~asg[clause[j]]

\* line 55: all(lit in assignment and not assignment[lit] for lit in clause)
ClauseFalsified(clause, asg) ==
    \A j \in DOMAIN clause : clause[j] \in DOMAIN asg /\ ~asg[clause[j]]

AllSatisfied(clauses, asg) == \A i \in DOMAIN clauses : ClauseSatisfied(clauses[i], asg)

SomeFalsified(clauses, asg) == \E i \in DOMAIN clauses : ClauseFalsified(clauses[i], asg)

\* line 58: {abs(lit) for clause in clauses for lit in clause} - assignment.keys()
Unassigned(clauses, asg) ==
    UNION {{Abs(clauses[i][j]) : j \in DOMAIN clauses[i]} : i \in DOMAIN clauses}
        \ DOMAIN asg

\* a variant of values that tries False first
valuesFalseFirst == <<FALSE, TRUE>>

\* line 63: for val in [True, False]
values == <<TRUE, FALSE>>

\* a variant of SetVar that gives the negated key the same value
SetVarSameValue(asg, var, val) == Put(Put(asg, var, val), -var, val)

\* a variant of SetVar that records the variable but not its negation
SetVarPositiveOnly(asg, var, val) == Put(asg, var, val)

\* lines 64-65: assignment[var] = val; assignment[-var] = not val
SetVar(asg, var, val) == Put(Put(asg, var, val), -var, ~val)

\* a variant of DelVar that leaves the negated key behind
DelVarPositiveOnly(asg, var) == Del(asg, var)

\* lines 68-69: del assignment[var]; del assignment[-var]
DelVar(asg, var) == Del(Del(asg, var), -var)

\* ------------------------------------------------------------ cdcl helpers
\* line 83: [l for l in clause if abs(l) not in assignment]
UnassignedLits(clause, asg) == SelectSeq(clause, LAMBDA l : Abs(l) \notin DOMAIN asg)

\* dict.get(key, default)
Get(d, k, default) == IF k \in DOMAIN d THEN d[k] ELSE default

\* a variant of Conflict that asks every literal to be assigned and falsified
ConflictAssignedOnly(clause, asg) ==
    \A j \in DOMAIN clause :
        Abs(clause[j]) \in DOMAIN asg /\ asg[Abs(clause[j])] = (clause[j] < 0)

\* a variant of Conflict that never reports one
ConflictNever(clause, asg) == FALSE

\* a variant of Conflict that does not take the empty clause for a conflict
ConflictNonEmpty(clause, asg) ==
    /\ clause # <<>>
    /\ \A j \in DOMAIN clause : Get(asg, Abs(clause[j]), clause[j] < 0) = (clause[j] < 0)

\* line 88: all(assignment.get(abs(l), l < 0) == (l < 0) for l in clause)
Conflict(clause, asg) ==
    \A j \in DOMAIN clause : Get(asg, Abs(clause[j]), clause[j] < 0) = (clause[j] < 0)

\* a variant of Force that records nothing
ForceNothing(asg, lit) == asg

\* line 86: assignment[abs(lit)] = lit > 0
Force(asg, lit) == Put(asg, Abs(lit), lit > 0)

\* line 104: all(any(assignment.get(abs(l), l > 0) == (l > 0) for l in clause) ...)
CdclAllSatisfied(clauses, asg) ==
    \A i \in DOMAIN clauses :
        \E j \in DOMAIN clauses[i] :
            Get(asg, Abs(clauses[i][j]), clauses[i][j] > 0) = (clauses[i][j] > 0)

\* lines 96-100: lowest variable of 1..num_vars without a value, 0 for None
choose_literal(n, asg) ==
    IF \E v \in 1..n : v \notin DOMAIN asg
    THEN CHOOSE v \in 1..n : v \notin DOMAIN asg /\ \A w \in 1..(v - 1) : w \in DOMAIN asg
    ELSE 0

\* lines 92-94: {k: v for k, v in assignment.items() if k <= level}
backtrack(asg, level) == [k \in {x \in DOMAIN asg : x <= level} |-> asg[k]]

\* line 161: 'SAT' if result else 'UNSAT'
Verdict(result) == IF result THEN "SAT" ELSE "UNSAT"

\* ------------------------------------------------------------ pigeonhole, DIMACS
\* line 121: vars_map = lambda p, h: p * n + h + 1
vars_map(n, p, h) == p * n + h + 1

\* the order in which the nested loops of lines 126-128 visit <<h, p1, p2>>
LoopBefore(a, b) ==
    \/ a[1] < b[1]
    \/ a[1] = b[1] /\ a[2] < b[2]
    \/ a[1] = b[1] /\ a[2] = b[2] /\ a[3] <= b[3]

RECURSIVE InLoopOrder(_)
InLoopOrder(S) ==
    IF S = {} THEN <<>>
    ELSE LET first == CHOOSE a \in S : \A b \in S : LoopBefore(a, b)
         IN  <<first>> \o InLoopOrder(S \ {first})

\* lines 123-129 with pigeons 0..(pigeons - 1) and holes 0..(n - 1)
PigeonholeClauses(n, pigeons) ==
    LET atLeast == [p \in 1..pigeons |-> [h \in 1..n |-> vars_map(n, p - 1, h - 1)]]
        triples == InLoopOrder({t \in (0..(n - 1)) \X (0..(pigeons - 1)) \X (0..(pigeons - 1)) :
                                    t[2] < t[3]})
        atMost == [k \in DOMAIN triples |->
                      <<-vars_map(n, triples[k][2], triples[k][1]),
                        -vars_map(n, triples[k][3], triples[k][1])>>]
    IN  atLeast \o atMost

\* lines 131-134: the "p cnf" header and one line of integers per clause, each ended by 0
WriteDimacs(n, cls) ==
    [num_vars |-> n, num_clauses |-> Len(cls), lines |-> [i \in DOMAIN cls |-> Append(cls[i], 0)]]

\* a variant of generate_pigeonhole_cnf with range(n) pigeons instead of range(n + 1)
generate_pigeonhole_cnf_n_pigeons(n) == WriteDimacs(n * (n + 1), PigeonholeClauses(n, n))

\* lines 119-134: n + 1 pigeons, n holes
generate_pigeonhole_cnf(n) == WriteDimacs(n * (n + 1), PigeonholeClauses(n, n + 1))

\* lines 11-25: num_vars from the header; each clause line loses its final 0
parse_dimacs(file) ==
    [clauses |-> [i \in DOMAIN file.lines |->
                     LET clause == file.lines[i]
                     IN  IF clause[Len(clause)] = 0
                         THEN SubSeq(clause, 1, Len(clause) - 1)
                         ELSE clause],
     num_vars |-> file.num_vars]

\* ------------------------------------------------------------ state
VARIABLES
    clauses,            \* the formula being solved (parse_dimacs' clauses)
    num_vars,           \* its declared variable count
    queue,              \* what the caller solves after this formula: [clauses, mode]
    mode,               \* "fresh": dpll(clauses, {}); "default": dpll(clauses)
    solver,             \* "DP", "DPLL", "CDCL", then "done" ("error": uncaught exception)
    pc,                 \* position inside the running solver
    verdict,            \* solver name -> "SAT" / "UNSAT" ("none" before it ran)
    log,                \* verdicts of the formulas solved earlier
    default_assignment, \* the dict object created once by "def dpll(clauses, assignment={})"
    assignment,         \* dpll: the dict the running call tree shares
    stack,              \* dpll: suspended calls, innermost last: [var, val, entry]
    ret,                \* dpll: at pc = "ret", the value the call that just returned gave
    ret_entry,          \* dpll: at pc = "ret", the assignment as it was when that call began
    ret_line,           \* dpll: at pc = "ret", the source line of the return statement taken
    cdcl_assignment,    \* cdcl: its local dict
    decision_level,     \* cdcl
    changed,            \* unit_propagate
    ci,                 \* unit_propagate: index of the clause the for loop visits next
    up_result           \* unit_propagate's return value

vars == <<clauses, num_vars, queue, mode, solver, pc, verdict, log, default_assignment,
          assignment, stack, ret, ret_entry, ret_line,
          cdcl_assignment, decision_level, changed, ci, up_result>>

harnessVars == <<clauses, num_vars, queue, mode, log>>
dpllVars == <<assignment, stack, ret, ret_entry, ret_line>>
cdclVars == <<cdcl_assignment, decision_level, changed, ci, up_result>>

NoVerdict == [name \in {"DP", "DPLL", "CDCL"} |-> "none"]

\* the state in which the caller is about to solve formula f over n variables
Begin(f, n, rest, m) ==
    /\ clauses = f
    /\ num_vars = n
    /\ queue = rest
    /\ mode = m
    /\ solver = "DP"
    /\ pc = "start"
    /\ verdict = NoVerdict
    /\ log = <<>>
    /\ default_assignment = EmptyDict
    /\ assignment = EmptyDict
    /\ stack = <<>>
    /\ ret = FALSE
    /\ ret_entry = EmptyDict
    /\ ret_line = 0
    /\ cdcl_assignment = EmptyDict
    /\ decision_level = 0
    /\ changed = FALSE
    /\ ci = 1
    /\ up_result = FALSE

\* one formula, solved the way benchmark_solver calls the three solvers
Init ==
    \E n \in 0..MaxVars : \E f \in Formulas(n) : Begin(f, n, <<>>, "fresh")

\* ------------------------------------------------------------ dp
\* benchmark_solver, name == "DP": dp(clauses, list(range(1, num_vars + 1)))
RunDP ==
    /\ solver = "DP"
    /\ LET result == dp(clauses, [i \in 1..num_vars |-> i])
       IN  IF result = "IndexError"
           THEN /\ solver' = "error"
                /\ verdict' = verdict
           ELSE /\ solver' = "DPLL"
                /\ verdict' = [verdict EXCEPT !["DP"] = Verdict(result = "True")]
    /\ pc' = "start"
    /\ clauses' = dpLeaves(clauses, [i \in 1..num_vars |-> i])
    /\ UNCHANGED <<num_vars, queue, mode, log, default_assignment, dpllVars, cdclVars>>

\* ------------------------------------------------------------ dpll
\* benchmark_solver, else branch: solver(clauses, {}); or dpll(clauses) on the default
DpllStart ==
    /\ solver = "DPLL" /\ pc = "start"
    /\ assignment' = IF mode = "default" THEN default_assignment ELSE EmptyDict
    /\ stack' = <<>>
    /\ pc' = "call"
    /\ ret' = FALSE /\ ret_entry' = EmptyDict /\ ret_line' = 0
    /\ UNCHANGED <<harnessVars, solver, verdict, default_assignment, cdclVars>>

\* lines 52-66: one invocation runs from its entry to its return or its first recursive call
DpllCall ==
    /\ solver = "DPLL" /\ pc = "call"
    /\ IF AllSatisfied(clauses, assignment)
       THEN /\ ret' = TRUE /\ ret_entry' = assignment /\ ret_line' = 53 /\ pc' = "ret"
            /\ UNCHANGED <<assignment, stack>>
       ELSE IF SomeFalsified(clauses, assignment)
       THEN /\ ret' = FALSE /\ ret_entry' = assignment /\ ret_line' = 56 /\ pc' = "ret"
            /\ UNCHANGED <<assignment, stack>>
       ELSE IF Unassigned(clauses, assignment) = {}
       THEN /\ ret' = TRUE /\ ret_entry' = assignment /\ ret_line' = 60 /\ pc' = "ret"
            /\ UNCHANGED <<assignment, stack>>
       ELSE \E var \in Unassigned(clauses, assignment) :
            /\ assignment' = SetVar(assignment, var, values[1])
            /\ stack' = Append(stack, [var |-> var, val |-> values[1], entry |-> assignment])
            /\ pc' = "call"
            /\ ret' = FALSE /\ ret_entry' = EmptyDict /\ ret_line' = 0
    /\ UNCHANGED <<harnessVars, solver, verdict, default_assignment, cdclVars>>

\* lines 66-70: the recursive call returned into the innermost suspended invocation
DpllReturn ==
    /\ solver = "DPLL" /\ pc = "ret" /\ stack # <<>>
    /\ LET f == stack[Len(stack)]
           outer == SubSeq(stack, 1, Len(stack) - 1)
       IN  IF ret
           THEN /\ stack' = outer
                /\ ret' = TRUE /\ ret_entry' = f.entry /\ ret_line' = 67 /\ pc' = "ret"
                /\ UNCHANGED assignment
           ELSE IF f.val = values[1]
           THEN /\ assignment' = SetVar(DelVar(assignment, f.var), f.var, values[2])
                /\ stack' = Append(outer, [f EXCEPT !.val = values[2]])
                /\ pc' = "call"
                /\ ret' = FALSE /\ ret_entry' = EmptyDict /\ ret_line' = 0
           ELSE /\ assignment' = DelVar(assignment, f.var)
                /\ stack' = outer
                /\ ret' = FALSE /\ ret_entry' = f.entry /\ ret_line' = 70 /\ pc' = "ret"
    /\ UNCHANGED <<harnessVars, solver, verdict, default_assignment, cdclVars>>

\* the top-level call returned to benchmark_solver
DpllFinish ==
    /\ solver = "DPLL" /\ pc = "ret" /\ stack = <<>>
    /\ verdict' = [verdict EXCEPT !["DPLL"] = Verdict(ret)]
    /\ default_assignment' = IF mode = "default" THEN assignment ELSE default_assignment
    /\ solver' = "CDCL"
    /\ pc' = "start"
    /\ UNCHANGED <<harnessVars, dpllVars, cdclVars>>

\* ------------------------------------------------------------ cdcl
\* the while-changed loop of unit_propagate starts a pass over the clauses
EnterPropagate ==
    /\ changed' = FALSE
    /\ ci' = 1
    /\ pc' = "scan"

\* lines 75-76, then line 103 calls unit_propagate; dpll's dict is no longer referenced
CdclStart ==
    /\ solver = "CDCL" /\ pc = "start"
    /\ cdcl_assignment' = EmptyDict
    /\ decision_level' = 0
    /\ EnterPropagate
    /\ assignment' = EmptyDict
    /\ UNCHANGED <<harnessVars, solver, verdict, default_assignment, stack, ret, ret_entry,
                   ret_line, up_result>>

\* lines 80-90: one step of unit_propagate: the for loop visits the next clause, or,
\* the pass being over, the while loop runs another pass or unit_propagate returns True
UnitPropagate ==
    /\ solver = "CDCL" /\ pc = "scan"
    /\ IF ci <= Len(clauses)
       THEN LET clause == clauses[ci]
                unassigned == UnassignedLits(clause, cdcl_assignment)
            IN  IF Len(unassigned) = 1
                THEN /\ cdcl_assignment' = Force(cdcl_assignment, unassigned[1])
                     /\ changed' = TRUE
                     /\ ci' = ci + 1
                     /\ UNCHANGED <<pc, up_result>>
                ELSE IF Conflict(clause, cdcl_assignment)
                THEN /\ up_result' = FALSE
                     /\ pc' = "loop"
                     /\ UNCHANGED <<cdcl_assignment, changed, ci>>
                ELSE /\ ci' = ci + 1
                     /\ UNCHANGED <<cdcl_assignment, changed, pc, up_result>>
       ELSE IF changed
       THEN /\ EnterPropagate
            /\ UNCHANGED <<cdcl_assignment, up_result>>
       ELSE /\ up_result' = TRUE
            /\ pc' = "loop"
            /\ UNCHANGED <<cdcl_assignment, changed, ci>>
    /\ UNCHANGED <<harnessVars, solver, verdict, default_assignment, dpllVars, decision_level>>

CdclReturn(result) ==
    /\ verdict' = [verdict EXCEPT !["CDCL"] = Verdict(result)]
    /\ solver' = "done"
    /\ pc' = "end"
    /\ UNCHANGED <<changed, ci>>

\* lines 103-115: the body of "while True" after unit_propagate returned
CdclLoop ==
    /\ solver = "CDCL" /\ pc = "loop"
    /\ IF up_result
       THEN IF CdclAllSatisfied(clauses, cdcl_assignment)
            THEN /\ CdclReturn(TRUE)
                 /\ UNCHANGED <<cdcl_assignment, decision_level>>
            ELSE /\ decision_level' = decision_level + 1
                 /\ LET var == choose_literal(num_vars, cdcl_assignment)
                    IN  IF var = 0
                        THEN /\ CdclReturn(TRUE)
                             /\ UNCHANGED cdcl_assignment
                        ELSE /\ \E value \in BOOLEAN :
                                    cdcl_assignment' = Put(cdcl_assignment, var, value)
                             /\ EnterPropagate
                             /\ UNCHANGED <<solver, verdict>>
       ELSE IF decision_level = 0
            THEN /\ CdclReturn(FALSE)
                 /\ UNCHANGED <<cdcl_assignment, decision_level>>
            ELSE /\ cdcl_assignment' = backtrack(cdcl_assignment, decision_level - 1)
                 /\ decision_level' = decision_level - 1
                 /\ EnterPropagate
                 /\ UNCHANGED <<solver, verdict>>
    /\ UNCHANGED <<harnessVars, default_assignment, dpllVars, up_result>>

\* ------------------------------------------------------------ specification
Next ==
    \/ RunDP
    \/ DpllStart
    \/ DpllCall
    \/ DpllReturn
    \/ DpllFinish
    \/ CdclStart
    \/ UnitPropagate
    \/ CdclLoop

Spec == Init /\ [][Next]_vars
FairSpec == Spec /\ WF_vars(Next)

\* ------------------------------------------------------------ several formulas
\* lines 241-254: the caller goes on to its next formula; the module-level function
\* object of dpll, and with it the dict of its default argument, stays
NextFormula ==
    /\ solver = "done" /\ queue # <<>>
    /\ log' = Append(log, [clauses |-> clauses, verdict |-> verdict])
    /\ clauses' = Head(queue).clauses
    /\ mode' = Head(queue).mode
    /\ queue' = Tail(queue)
    /\ solver' = "DP"
    /\ pc' = "start"
    /\ verdict' = NoVerdict
    /\ assignment' = EmptyDict
    /\ stack' = <<>>
    /\ ret' = FALSE /\ ret_entry' = EmptyDict /\ ret_line' = 0
    /\ cdcl_assignment' = EmptyDict
    /\ decision_level' = 0
    /\ changed' = FALSE
    /\ ci' = 1
    /\ up_result' = FALSE
    /\ UNCHANGED <<num_vars, default_assignment>>

\* a formula f, then a formula g, then f again, each with dpll called either way
InitRepeat ==
    \E n \in 1..MaxVars : \E f, g \in ShortFormulas(n) : \E m1, m2, m3 \in Modes :
        Begin(f, n, <<[clauses |-> g, mode |-> m2], [clauses |-> f, mode |-> m3]>>, m1)

NextRepeat ==
    \/ Next
    \/ NextFormula

SpecRepeat == InitRepeat /\ [][NextRepeat]_vars

\* ------------------------------------------------------------ pigeonhole runs
\* lines 241-249 with --test pigeonhole: generate ph_n.cnf, parse it, solve it
InitPigeon ==
    \E n \in 1..MaxHoles :
        LET parsed == parse_dimacs(generate_pigeonhole_cnf(n))
        IN  Begin(parsed.clauses, parsed.num_vars, <<>>, "fresh")

SpecPigeon == InitPigeon /\ [][Next]_vars

\* ------------------------------------------------------------ properties
HasEmptyClause == \E i \in DOMAIN clauses : clauses[i] = <<>>

\* dpll's top-level call has just returned to its caller
DpllReturned == solver = "DPLL" /\ pc = "ret" /\ stack = <<>>

\* C1: once the three solvers have run on a formula, dp, dpll and cdcl report the
\* same verdict.
C1_SolversAgree ==
    solver = "done" =>
        /\ verdict["DP"] = verdict["DPLL"]
        /\ verdict["DPLL"] = verdict["CDCL"]

\* C2: when dpll, started on an empty assignment, returns true, every clause holds a
\* literal that is a key of the assignment and mapped to true.
C2_WitnessValid ==
    (DpllReturned /\ ret) =>
        \A i \in DOMAIN clauses :
            \E j \in DOMAIN clauses[i] :
                /\ clauses[i][j] \in DOMAIN assignment
                /\ assignment[clauses[i][j]] = TRUE

\* a true verdict reached after a True branch failed and the False value was taken
C2_Witness ==
    /\ DpllReturned /\ ret
    /\ Len(clauses) >= 2
    /\ \E v \in 1..num_vars : v \in DOMAIN assignment /\ ~assignment[v]

\* C3: when a dpll call (top-level or recursive) returns false, the assignment is
\* the mapping it was when that call was entered.
C3_CleanBacktrack ==
    (solver = "DPLL" /\ pc = "ret" /\ ~ret) => assignment = ret_entry

\* a recursive call that tried both values of a variable, failed, and returns false
\* to a caller whose own tentative entries are still in place
C3_Witness ==
    /\ solver = "DPLL" /\ pc = "ret" /\ ~ret
    /\ ret_line = 70
    /\ stack # <<>>
    /\ ret_entry # EmptyDict

\* C4: dp(clauses, [1..N]) returns true exactly when some total assignment to 1..N
\* makes a literal of every clause true, and it never fails on symbols[0].
C4_DpCorrect ==
    /\ solver # "error"
    /\ verdict["DP"] # "none" =>
           (verdict["DP"] = "SAT" <=> Satisfiable(clauses, num_vars))

\* dp refuted a formula of three non-empty clauses
C4_Witness ==
    /\ verdict["DP"] = "UNSAT"
    /\ Len(clauses) = 3
    /\ ~HasEmptyClause

\* C5: dpll(clauses, {}) returns true exactly when the formula is satisfiable,
\* whichever unassigned variable each call picks.
C5_DpllCorrect ==
    verdict["DPLL"] # "none" =>
        (verdict["DPLL"] = "SAT" <=> Satisfiable(clauses, num_vars))

\* dpll refuted a formula of three non-empty clauses over two variables
C5_Witness ==
    /\ verdict["DPLL"] = "UNSAT"
    /\ Len(clauses) = 3
    /\ ~HasEmptyClause
    /\ Unassigned(clauses, EmptyDict) = {1, 2}

\* C6: when cdcl returns false the formula is unsatisfiable.
C6_CdclUnsatSound ==
    verdict["CDCL"] = "UNSAT" => ~Satisfiable(clauses, num_vars)

\* C7: every run of the three solvers on a formula ends with all three verdicts
\* given: no solver loops forever and none ends in an error.
C7_Terminates == <>(solver = "done")

\* all three solvers returned, dpll after backtracking and cdcl after forced assignments
C7_Witness ==
    /\ solver = "done"
    /\ \A name \in DOMAIN verdict : verdict[name] \in {"SAT", "UNSAT"}
    /\ verdict["DPLL"] = "UNSAT"
    /\ ~HasEmptyClause
    /\ DOMAIN cdcl_assignment = {1, 2}

\* C8: on an empty clause list every solver reports SAT, and on a clause list that
\* holds an empty clause every solver reports UNSAT.
C8_BaseCases ==
    \A name \in DOMAIN verdict :
        verdict[name] # "none" =>
            /\ clauses = <<>> => verdict[name] = "SAT"
            /\ HasEmptyClause => verdict[name] = "UNSAT"

\* the three solvers have run on a formula whose empty clause comes last, after
\* two satisfiable non-empty clauses
C8_Witness ==
    /\ solver = "done"
    /\ Len(clauses) = 3
    /\ clauses[3] = <<>>
    /\ clauses[1] # <<>> /\ clauses[2] # <<>>
    /\ Satisfiable(SubSeq(clauses, 1, 2), num_vars)

\* C9: a solver's verdict for a formula does not depend on what was solved before:
\* each verdict given for the current formula is the verdict the same solver gave
\* whenever it solved the same formula earlier, with dpll called either way.
C9_NoCrossCallState ==
    \A k \in DOMAIN log :
        log[k].clauses = clauses =>
            \A name \in DOMAIN verdict :
                verdict[name] # "none" => verdict[name] = log[k].verdict[name]

\* the formula is the pigeonhole formula of n: a clause of the n hole variables of each
\* of the n + 1 pigeons, and a clause of two negated variables for each hole and each
\* pair of pigeons, over n * (n + 1) variables
IsPigeonhole(n) ==
    /\ num_vars = n * (n + 1)
    /\ Len(clauses) = (n + 1) + n * ((n * (n + 1)) \div 2)
    /\ \A p \in 0..n : clauses[p + 1] = [k \in 1..n |-> p * n + (k - 1) + 1]
    /\ \A h \in 0..(n - 1) : \A p1, p2 \in 0..n :
           p1 < p2 => \E i \in DOMAIN clauses :
                          clauses[i] = <<-(p1 * n + h + 1), -(p2 * n + h + 1)>>

\* C10: for each n >= 1 the generated formula is the pigeonhole formula of n, and dp,
\* dpll from an empty assignment and cdcl each report it UNSAT.
C10_PigeonholeUnsat ==
    /\ \E n \in 1..MaxHoles : IsPigeonhole(n)
    /\ \A name \in DOMAIN verdict : verdict[name] \in {"none", "UNSAT"}

\* the three solvers have refuted the largest instance within the bound
C10_Witness ==
    /\ solver = "done"
    /\ IsPigeonhole(MaxHoles)
    /\ \A name \in DOMAIN verdict : verdict[name] = "UNSAT"

\* a literal under cdcl's dict: its variable has a value and that value makes it true / false
LitSat(l, asg) == Abs(l) \in DOMAIN asg /\ asg[Abs(l)] = (l > 0)
LitFalse(l, asg) == Abs(l) \in DOMAIN asg /\ asg[Abs(l)] = (l < 0)

\* C11: no step of dp, dpll or cdcl changes the caller's clause list: same clauses, in
\* the same order, each with the same literals.
C11_FormulaUnchanged ==
    [][(solver \in {"DP", "DPLL", "CDCL"}) => (clauses' = clauses)]_vars

\* the three solvers have run on a formula that dp's assign had to reduce both ways
\* and that made dpll and cdcl record assignments
C11_Witness ==
    /\ solver = "done"
    /\ Len(clauses) = 3
    /\ \E i, k \in DOMAIN clauses : Contains(clauses[i], 1) /\ Contains(clauses[k], -1)
    /\ verdict["DPLL"] = "SAT"
    /\ cdcl_assignment # EmptyDict

\* C12: unit_propagate forces an assignment for a clause only when exactly one literal
\* of the clause has an unassigned variable and every other literal is falsified.
C12_ForcedOnlyWhenUnit ==
    [][(solver = "CDCL" /\ pc = "scan" /\ cdcl_assignment' # cdcl_assignment) =>
          LET clause == clauses[ci]
          IN  \E j \in DOMAIN clause :
                  /\ Abs(clause[j]) \notin DOMAIN cdcl_assignment
                  /\ \A k \in (DOMAIN clause) \ {j} : LitFalse(clause[k], cdcl_assignment)]_vars

\* C13: unit_propagate reports a conflict at a clause exactly when every literal of
\* that clause is assigned and falsified.
C13_ConflictIffAllFalse ==
    [][(solver = "CDCL" /\ pc = "scan" /\ ci <= Len(clauses)) =>
          ((pc' = "loop" /\ ~up_result') <=>
               \A j \in DOMAIN clauses[ci] : LitFalse(clauses[ci][j], cdcl_assignment))]_vars

\* C14: when cdcl returns true every clause holds a literal satisfied under the final
\* assignment, and so the formula is satisfiable.
C14_CdclSatSound ==
    verdict["CDCL"] = "SAT" =>
        /\ \A i \in DOMAIN clauses :
               \E j \in DOMAIN clauses[i] : LitSat(clauses[i][j], cdcl_assignment)
        /\ Satisfiable(clauses, num_vars)

\* cdcl returned true on two or more clauses after forcing both variables
C14_Witness ==
    /\ verdict["CDCL"] = "SAT"
    /\ Len(clauses) >= 2
    /\ DOMAIN cdcl_assignment = {1, 2}

\* the innermost suspended dpll call
Top(stk) == stk[Len(stk)]

\* C15: dpll gives a variable it chooses the value True first; it moves to False only
\* when the call under True has returned false; a call that returns true makes its
\* caller return true at once with the assignment left as it is; and on [[1]] dpll
\* returns true with variable 1 mapped to true.
C15_TrueFirst ==
    [][solver = "DPLL" =>
          /\ Len(stack') = Len(stack) + 1 =>
                 /\ Top(stack').val = TRUE
                 /\ assignment'[Top(stack').var] = TRUE
          /\ (Len(stack') = Len(stack) /\ stack' # stack) =>
                 /\ pc = "ret" /\ ~ret
                 /\ Top(stack).val = TRUE /\ Top(stack').val = FALSE
                 /\ Top(stack').var = Top(stack).var
                 /\ assignment'[Top(stack).var] = FALSE
          /\ (pc = "ret" /\ ret /\ stack # <<>>) =>
                 /\ pc' = "ret" /\ ret'
                 /\ stack' = SubSeq(stack, 1, Len(stack) - 1)
                 /\ assignment' = assignment
          /\ (clauses = <<<<1>>>> /\ pc' = "ret" /\ stack' = <<>>) =>
                 /\ ret'
                 /\ 1 \in DOMAIN assignment' /\ assignment'[1] = TRUE]_vars

\* a call under the value False returned true: True had failed before, and the
\* caller is about to return true without undoing anything
C15_Witness ==
    /\ solver = "DPLL" /\ pc = "ret" /\ ret
    /\ stack # <<>>
    /\ Top(stack).val = FALSE
    /\ assignment[Top(stack).var] = FALSE

\* the distinct variables of the formula
FormulaVars == Unassigned(clauses, EmptyDict)

\* C16: dp called with symbols [1..N] nests at most N recursive calls and never reads
\* symbols[0] from an empty list; dpll from an empty assignment nests at most one
\* recursive call per distinct variable of the formula.
C16_DepthBounded ==
    /\ solver # "error"
    /\ dpDepth(clauses, [i \in 1..num_vars |-> i]) <= num_vars
    /\ Len(stack) <= Cardinality(FormulaVars)

\* dp went N calls deep on every path it took and dpll is as deep as it can get
C16_Witness ==
    /\ solver = "DPLL"
    /\ num_vars = MaxVars
    /\ dpDepth(clauses, [i \in 1..num_vars |-> i]) = num_vars
    /\ Len(stack) = Cardinality(FormulaVars)
    /\ Len(stack) = num_vars

\* C17: cdcl's decision level is 0 in every state, and whenever unit_propagate returned
\* without conflict every clause holds an assigned, satisfied literal, so that cdcl
\* returns at its success check and neither decides nor backtracks.
C17_NoDecision ==
    /\ decision_level = 0
    /\ (solver = "CDCL" /\ pc = "loop" /\ up_result) =>
           \A i \in DOMAIN clauses :
               \E j \in DOMAIN clauses[i] : LitSat(clauses[i][j], cdcl_assignment)

\* unit_propagate returned without conflict on three clauses, after forced assignments
C17_Witness ==
    /\ solver = "CDCL" /\ pc = "loop" /\ up_result
    /\ Len(clauses) = 3
    /\ DOMAIN cdcl_assignment = {1, 2}
    /\ decision_level = 0

\* v is a key exactly when -v is, and the two have opposite values
Paired(asg) ==
    \A k \in DOMAIN asg : (-k) \in DOMAIN asg /\ asg[-k] = ~asg[k]

\* C18: at every entry to and return from dpll the assignment is literal-paired; no
\* clause is both satisfied and falsified; and a call that finds no clause falsified
\* and no variable unassigned, which is where the return of line 60 would be taken,
\* finds every clause satisfied.
C18_LiteralPaired ==
    (solver = "DPLL" /\ pc \in {"call", "ret"}) =>
        /\ Paired(assignment)
        /\ \A i \in DOMAIN clauses :
               ~(ClauseSatisfied(clauses[i], assignment) /\ ClauseFalsified(clauses[i], assignment))
        /\ ret_line = 60 => AllSatisfied(clauses, assignment)
        /\ (pc = "call" /\ Unassigned(clauses, assignment) = {}
                /\ ~SomeFalsified(clauses, assignment)) => AllSatisfied(clauses, assignment)

\* a recursive call two levels down is entered with both variables and both negations set
C18_Witness ==
    /\ solver = "DPLL" /\ pc = "call"
    /\ Len(stack) = 2
    /\ DOMAIN assignment = {-2, -1, 1, 2}
====
